---- MODULE Spec2Model ----
(***************************************************************************)
(* Model of the Megaverse uploader: the retrying remote client             *)
(* (src/src/api.ts, class MegaverseAPI) and the batch driver               *)
(* (src/src/main.ts, createPhase2Logo).                                    *)
(*                                                                         *)
(* A logical operation of the client is a record of `calls`; `calls` lists *)
(* the operations in the order in which they were started.  The driver is  *)
(* the sequential program createPhase2Logo, whose position is `pc`.        *)
(***************************************************************************)
EXTENDS Integers, Sequences, FiniteSets, TLC

VARIABLES
    calls,        \* the client's logical operations, in order of initiation
    pc,           \* position of createPhase2Logo (or "client" when only the client runs)
    allEntities,  \* main.ts:83, the combined list of creation intents
    batchIndex,   \* main.ts:99, index of the batch being processed (0-based)
    sleeping,     \* milliseconds of the pending delay(ms) timer, 0 when none
    log,          \* the lines createPhase2Logo and main have written to the console
    faults        \* failing responses the server has produced in this run

vars == <<calls, pc, allEntities, batchIndex, sleeping, log, faults>>

---------------------------------------------------------------------------
(* Program constants *)

retries == 3
factor == 2
minTimeout == 1000
maxTimeout == 8000
batchSize == 5
batchPause == 2000

(* Bounds of the model *)

MaxSize == 4     \* rows plus cells of an enumerated goal map
MaxWide == 7     \* cells of the longest single-row goal map
MaxFaults == 2   \* failing responses per driver run
MaxOps == 2      \* operations in flight on one client instance

---------------------------------------------------------------------------
(* Values *)

Min(a, b) == IF a < b THEN a ELSE b

\* A response body.  hasData is FALSE for an empty body; isArray says whether
\* body.goal is an array, rows are its rows; tag tells opaque bodies apart.
Body(hasData, isArray, rows, tag) ==
    [hasData |-> hasData, isArray |-> isArray, rows |-> rows, tag |-> tag]

NoData == Body(FALSE, FALSE, <<>>, "undefined")

\* Outcome of one HTTP attempt: kind "ok" (2xx), "http" (an AxiosError with a
\* response), "noResponse" (an AxiosError without one: connection error or
\* timeout), "other" (an Error that is not an AxiosError), "typeError" (a
\* TypeError that is neither an AxiosError nor a network error).
Outcome(kind, status, body) == [kind |-> kind, status |-> status, body |-> body]

NoOutcome == Outcome("none", 0, NoData)

ErrorStatuses == {400, 404, 429, 500, 503}

Failures ==
    {Outcome("http", s, NoData) : s \in ErrorStatuses}
        \cup {Outcome("noResponse", 0, NoData), Outcome("other", 0, NoData),
              Outcome("typeError", 0, NoData)}

PlainBodies == {Body(TRUE, FALSE, <<>>, "b1"), Body(TRUE, FALSE, <<>>, "b2"), NoData}

CreateOps == {"createPolyanet", "createSoloon", "createCometh"}

PublicOps ==
    CreateOps \cup {"deletePolyanet", "deleteSoloon", "deleteCometh",
                    "getGoalMap", "validateMap"}

NoPayload == [row |-> -1, column |-> -1, attr |-> <<>>]

---------------------------------------------------------------------------
(* The client: src/src/api.ts *)

\* shouldRetry retrying every error response, the permanent 4xx included
shouldRetry_any4xx(error) ==
    IF error.kind \in {"http", "noResponse"}
    THEN IF error.kind = "noResponse"
         THEN TRUE
         ELSE error.status >= 400
    ELSE TRUE

\* shouldRetry without the rate-limit case
shouldRetry_no429(error) ==
    IF error.kind \in {"http", "noResponse"}
    THEN IF error.kind = "noResponse"
         THEN TRUE
         ELSE error.status >= 500
    ELSE TRUE

\* api.ts:42-50
shouldRetry(error) ==
    IF error.kind \in {"http", "noResponse"}
    THEN IF error.kind = "noResponse"
         THEN TRUE
         ELSE error.status >= 500 \/ error.status = 429
    ELSE TRUE

\* api.ts:52-72; the message is kept as the branch that built it
handleError(error) ==
    IF error.kind = "http"
    THEN [success |-> FALSE, message |-> "response", data |-> NoData]
    ELSE IF error.kind = "noResponse"
    THEN [success |-> FALSE, message |-> "connect", data |-> NoData]
    ELSE [success |-> FALSE, message |-> "error", data |-> NoData]

\* the backoff with the exponent counted from the attempt, not the retry
backoff_fromAttempt(n) == Min(minTimeout * factor ^ n, maxTimeout)

\* api.ts:79-84, the backoff before retry number n (p-retry: minTimeout *
\* factor^(n-1), capped at maxTimeout)
backoff(n) == Min(minTimeout * factor ^ (n - 1), maxTimeout)

\* A logical operation that has just been started: api.ts:100-113, 139-143,
\* 153-156 call withRetry, whose pRetry runs the first attempt at once.
\* hist lists the outcomes of the attempts that have ended, delays the
\* backoff delays that were scheduled.
NewCall(name, payload) ==
    [name |-> name, payload |-> payload, attempt |-> 1, status |-> "inflight",
     hist |-> <<>>, delays |-> <<>>, timeout |-> 0,
     success |-> FALSE, message |-> "", data |-> NoData]

Last(c) == IF c.hist = <<>> THEN NoOutcome ELSE c.hist[Len(c.hist)]

\* pRetry allowing one retry too many
pRetry_oneMore(c, o) ==
    LET d == [c EXCEPT !.hist = Append(@, o)]
    IN  IF o.kind = "ok"
        THEN [d EXCEPT !.status = "resolved"]
        ELSE IF o.kind = "typeError"
        THEN [d EXCEPT !.status = "rejected"]
        ELSE IF shouldRetry(o) /\ c.attempt <= retries + 1
        THEN [d EXCEPT !.status = "waiting", !.timeout = backoff(c.attempt),
                       !.delays = Append(@, backoff(c.attempt))]
        ELSE [d EXCEPT !.status = "rejected"]

\* api.ts:79-88, pRetry when the running attempt of c ends with outcome o: it
\* resolves on success; on failure it asks shouldRetry and schedules the next
\* attempt while fewer than `retries` retries were made; otherwise it rejects.
\* p-retry rejects with a TypeError that is not a network error at once,
\* without calling shouldRetry.
pRetry(c, o) ==
    LET d == [c EXCEPT !.hist = Append(@, o)]
    IN  IF o.kind = "ok"
        THEN [d EXCEPT !.status = "resolved"]
        ELSE IF o.kind = "typeError"
        THEN [d EXCEPT !.status = "rejected"]
        ELSE IF shouldRetry(o) /\ c.attempt <= retries
        THEN [d EXCEPT !.status = "waiting", !.timeout = backoff(c.attempt),
                       !.delays = Append(@, backoff(c.attempt))]
        ELSE [d EXCEPT !.status = "rejected"]

\* api.ts:145-147, 158-160: getGoalMap and validateMap rewrite the message of
\* a successful result
finish(name, result) ==
    IF result.success /\ name = "getGoalMap"
    THEN [result EXCEPT !.message = "goal"]
    ELSE IF result.success /\ name = "validateMap"
    THEN [result EXCEPT !.message = "validated"]
    ELSE result

\* the success result built without the response body
succeeded_noBody(response) ==
    [success |-> TRUE, message |-> "ok", data |-> NoData]

\* api.ts:90-94
succeeded(response) ==
    [success |-> TRUE, message |-> "ok", data |-> response.body]

\* The operation returns `result` to its caller.
returned(c, result) ==
    [c EXCEPT !.status = "returned", !.success = result.success,
              !.message = result.message, !.data = result.data]

\* withRetry without its catch clause: the rejection reaches the caller
withRetry_noCatch(c, o) ==
    LET p == pRetry(c, o)
    IN  IF p.status = "resolved"
        THEN returned(p, finish(c.name, succeeded(o)))
        ELSE IF p.status = "rejected"
        THEN [p EXCEPT !.status = "threw"]
        ELSE p

\* api.ts:74-98: withRetry awaits pRetry inside try/catch: a resolved pRetry
\* gives the success result, a rejected one goes through handleError.
withRetry(c, o) ==
    LET p == pRetry(c, o)
    IN  IF p.status = "resolved"
        THEN returned(p, finish(c.name, succeeded(o)))
        ELSE IF p.status = "rejected"
        THEN returned(p, finish(c.name, handleError(o)))
        ELSE p

\* The backoff timer of c fires: pRetry runs the next attempt.
nextAttempt(c) ==
    [c EXCEPT !.status = "inflight", !.attempt = @ + 1, !.timeout = 0]

Pending(c) == c.status \in {"inflight", "waiting"}
Settled(c) == c.status \in {"returned", "threw"}

---------------------------------------------------------------------------
(* The client alone: one operation of one MegaverseAPI instance *)

InitClient ==
    /\ calls = <<>>
    /\ pc = "client"
    /\ allEntities = <<>>
    /\ batchIndex = 0
    /\ sleeping = 0
    /\ log = {}
    /\ faults = 0

\* api.ts:115-163: a caller starts one of the public operations
Invoke ==
    /\ pc = "client"
    /\ calls = <<>>
    /\ \E name \in PublicOps : calls' = <<NewCall(name, NoPayload)>>
    /\ UNCHANGED <<pc, allEntities, batchIndex, sleeping, log, faults>>

\* the running attempt ends: the server answers, or the transport fails
AttemptEnds ==
    /\ pc = "client"
    /\ \E i \in 1..Len(calls) :
        /\ calls[i].status = "inflight"
        /\ \E o \in Failures \cup {Outcome("ok", 200, b) : b \in PlainBodies} :
              calls' = [calls EXCEPT ![i] = withRetry(calls[i], o)]
    /\ UNCHANGED <<pc, allEntities, batchIndex, sleeping, log, faults>>

\* the backoff timer fires
RetryTimer ==
    /\ \E i \in 1..Len(calls) :
        /\ calls[i].status = "waiting"
        /\ calls' = [calls EXCEPT ![i] = nextAttempt(calls[i])]
    /\ UNCHANGED <<pc, allEntities, batchIndex, sleeping, log, faults>>

NextClient == Invoke \/ AttemptEnds \/ RetryTimer

SpecClient == InitClient /\ [][NextClient]_vars

---------------------------------------------------------------------------
(* One client instance used by several operations at once *)

InitShared ==
    /\ calls = <<>>
    /\ pc = "shared"
    /\ allEntities = <<>>
    /\ batchIndex = 0
    /\ sleeping = 0
    /\ log = {}
    /\ faults = 0

\* the operations started on the shared instance: one with a payload, one
\* without
SharedOps == {"createPolyanet", "validateMap"}

\* what an attempt on the shared instance may end with: a response, a
\* transient failure and a permanent one
SharedOutcomes ==
    {Outcome("ok", 200, Body(TRUE, FALSE, <<>>, "b1")),
     Outcome("http", 500, NoData), Outcome("http", 404, NoData)}

\* api.ts:115-163: a caller starts an operation while others are in flight
InvokeShared ==
    /\ pc = "shared"
    /\ Len(calls) < MaxOps
    /\ \E name \in SharedOps : calls' = Append(calls, NewCall(name, NoPayload))
    /\ UNCHANGED <<pc, allEntities, batchIndex, sleeping, log, faults>>

\* the retries scheduled so far by the first k operations of the instance
RECURSIVE RetriesUsed(_)
RetriesUsed(k) == IF k = 0 THEN 0 ELSE RetriesUsed(k - 1) + Len(calls[k].delays)

\* the shared instance with one retry counter for all its operations
AttemptEndsShared_oneCounter ==
    /\ pc = "shared"
    /\ \E i \in 1..Len(calls) :
        /\ calls[i].status = "inflight"
        /\ \E o \in SharedOutcomes :
              LET used == RetriesUsed(Len(calls))
              IN  calls' = [calls EXCEPT ![i] =
                      IF o.kind # "ok" /\ used >= retries
                      THEN returned([calls[i] EXCEPT !.hist = Append(@, o)],
                                    handleError(o))
                      ELSE withRetry(calls[i], o)]
    /\ UNCHANGED <<pc, allEntities, batchIndex, sleeping, log, faults>>

\* api.ts:74-98: the running attempt of one of the operations ends; pRetry
\* keeps its attempt count in the call of withRetry it belongs to
AttemptEndsShared ==
    /\ pc = "shared"
    /\ \E i \in 1..Len(calls) :
        /\ calls[i].status = "inflight"
        /\ \E o \in SharedOutcomes :
              calls' = [calls EXCEPT ![i] = withRetry(calls[i], o)]
    /\ UNCHANGED <<pc, allEntities, batchIndex, sleeping, log, faults>>

NextShared == InvokeShared \/ AttemptEndsShared \/ RetryTimer

SpecShared == InitShared /\ [][NextShared]_vars

---------------------------------------------------------------------------
(* Goal maps.  A string is the sequence of its tokens: "BLUE_SOLOON" is    *)
(* <<"BLUE", "_SOLOON">>, the empty string is <<>>.                        *)

Str(text) == [isString |-> TRUE, text |-> text]
NotAString == [isString |-> FALSE, text |-> <<>>]

ArrayRow(cells) == [isArray |-> TRUE, cells |-> cells]
NullRow == [isArray |-> FALSE, cells |-> <<>>]

SPACE == Str(<<"SPACE">>)
POLYANET == Str(<<"POLYANET">>)
BLUE_SOLOON == Str(<<"BLUE", "_SOLOON">>)
UP_COMETH == Str(<<"UP", "_COMETH">>)

Labels == {SPACE, POLYANET, BLUE_SOLOON, UP_COMETH}

\* a row of n cells that cycles through the kinds, last kind of the
\* combined list first
WideRow(n) ==
    ArrayRow([i \in 1..n |->
        IF i % 3 = 1 THEN UP_COMETH ELSE IF i % 3 = 2 THEN BLUE_SOLOON ELSE POLYANET])

\* the rows of k - 1 cells, and the null row for k = 1
RowsOfSize(k) ==
    {ArrayRow(cells) : cells \in [1..(k - 1) -> Labels]}
        \cup (IF k = 1 THEN {NullRow} ELSE {})

\* the goal maps, ragged ones included, whose rows and cells number n together
RECURSIVE GridsOfSize(_)
GridsOfSize(n) ==
    IF n = 0
    THEN {<<>>}
    ELSE UNION {{<<row>> \o rest : row \in RowsOfSize(k), rest \in GridsOfSize(n - k)} :
                   k \in 1..n}

Grids ==
    UNION {GridsOfSize(n) : n \in 0..MaxSize}
        \cup {<<WideRow(n)>> : n \in (batchSize + 1)..MaxWide}

GoalBodies ==
    {NoData, Body(TRUE, FALSE, <<>>, "goal")}
        \cup {Body(TRUE, TRUE, rows, "goal") : rows \in Grids}

---------------------------------------------------------------------------
(* The driver: src/src/main.ts, createPhase2Logo *)

\* String.prototype.endsWith for a suffix that is one token
endsWith(text, suffix) == text # <<>> /\ text[Len(text)] = suffix

\* String.prototype.replace with a string pattern: the first occurrence only
replace(text, pattern) ==
    IF \E k \in 1..Len(text) : text[k] = pattern
    THEN LET k == CHOOSE k \in 1..Len(text) :
                    /\ text[k] = pattern
                    /\ \A j \in 1..(k - 1) : text[j] # pattern
         IN  SubSeq(text, 1, k - 1) \o SubSeq(text, k + 1, Len(text))
    ELSE text

lowerToken(t) ==
    CASE t = "BLUE" -> "blue"
      [] t = "UP" -> "up"
      [] t = "RED" -> "red"
      [] t = "X" -> "x"
      [] t = "FOO" -> "foo"
      [] t = "SPACE" -> "space"
      [] t = "POLYANET" -> "polyanet"
      [] t = "_SOLOON" -> "_soloon"
      [] t = "_COMETH" -> "_cometh"
      [] OTHER -> t

toLowerCase(text) == [k \in 1..Len(text) |-> lowerToken(text[k])]

Entity(row, column, attr) == [row |-> row, column |-> column, attr |-> attr]

\* one cell, with the suffixes looked for anywhere in the label
scanCell_includes(lists, cell, row, column) ==
    IF cell.isString /\ cell.text # <<>> /\ cell # SPACE
    THEN IF cell = POLYANET
         THEN [lists EXCEPT !.polyanets = Append(@, Entity(row, column, <<>>))]
         ELSE IF \E k \in 1..Len(cell.text) : cell.text[k] = "_SOLOON"
         THEN [lists EXCEPT !.soloons =
                  Append(@, Entity(row, column, toLowerCase(replace(cell.text, "_SOLOON"))))]
         ELSE IF \E k \in 1..Len(cell.text) : cell.text[k] = "_COMETH"
         THEN [lists EXCEPT !.comeths =
                  Append(@, Entity(row, column, toLowerCase(replace(cell.text, "_COMETH"))))]
         ELSE lists
    ELSE lists

\* main.ts:63-75, one cell; lists holds polyanets, soloons and comeths
scanCell(lists, cell, row, column) ==
    IF cell.isString /\ cell.text # <<>> /\ cell # SPACE
    THEN IF cell = POLYANET
         THEN [lists EXCEPT !.polyanets = Append(@, Entity(row, column, <<>>))]
         ELSE IF endsWith(cell.text, "_SOLOON")
         THEN [lists EXCEPT !.soloons =
                  Append(@, Entity(row, column, toLowerCase(replace(cell.text, "_SOLOON"))))]
         ELSE IF endsWith(cell.text, "_COMETH")
         THEN [lists EXCEPT !.comeths =
                  Append(@, Entity(row, column, toLowerCase(replace(cell.text, "_COMETH"))))]
         ELSE lists
    ELSE lists

\* main.ts:62-76, the cells of one row from column k on (rows and columns
\* are numbered from 0 in the entities)
RECURSIVE scanRow(_, _, _, _)
scanRow(lists, cells, row, k) ==
    IF k > Len(cells)
    THEN lists
    ELSE scanRow(scanCell(lists, cells[k], row, k - 1), cells, row, k + 1)

\* main.ts:57-77, the rows from row r on
RECURSIVE scanRows(_, _, _)
scanRows(lists, goalMap, r) ==
    IF r > Len(goalMap)
    THEN lists
    ELSE scanRows(scanRow(lists, goalMap[r].cells, r - 1, 1), goalMap, r + 1)

\* main.ts:62: goalMap[row].length throws a TypeError when the row is null
scanThrows(goalMap) == \E r \in 1..Len(goalMap) : ~goalMap[r].isArray

Intents(entities, createFn) ==
    [k \in 1..Len(entities) |-> [entity |-> entities[k], createFn |-> createFn]]

\* the combined list with the soloons put first
combine_soloonsFirst(lists) ==
    Intents(lists.soloons, "createSoloon")
        \o Intents(lists.polyanets, "createPolyanet")
        \o Intents(lists.comeths, "createCometh")

\* main.ts:83-87
combine(lists) ==
    Intents(lists.polyanets, "createPolyanet")
        \o Intents(lists.soloons, "createSoloon")
        \o Intents(lists.comeths, "createCometh")

\* main.ts:57-87
flatten(goalMap) ==
    combine(scanRows([polyanets |-> <<>>, soloons |-> <<>>, comeths |-> <<>>], goalMap, 1))

\* main.ts:91-95
numBatches(entities) == (Len(entities) + batchSize - 1) \div batchSize

\* main.ts:94, the positions in allEntities of batch b (0-based)
batchRange(entities, b) ==
    (b * batchSize + 1)..Min((b + 1) * batchSize, Len(entities))

\* main.ts:104-119: batch.map calls createFn for each intent of batch b in
\* list order; each call starts a logical operation of the client
launch(entities, b) ==
    [k \in 1..Cardinality(batchRange(entities, b)) |->
        LET e == entities[b * batchSize + k]
        IN  NewCall(e.createFn, e.entity)]

\* main.ts:131
callValidate == NewCall("validateMap", NoPayload)

\* the calls of batch b: calls[1] is getGoalMap, calls[j + 1] belongs to
\* allEntities[j]
batchCalls(b) == {calls[j + 1] : j \in batchRange(allEntities, b)}

\* a console line: its fixed text and the numbers printed in it
Line(text, args) == [text |-> text, args |-> args]

\* main.ts:45, 53-54
goalLines(goalMap) ==
    {Line("Goal response data:", <<>>),
     Line("Goal map dimensions:", <<Len(goalMap)>>),
     Line("First few rows of goal map:", <<>>)}

\* main.ts:101
batchLine(entities, b) ==
    Line("Processing batch", <<b + 1, numBatches(entities)>>)

CountOf(entities, createFn) ==
    Cardinality({k \in 1..Len(entities) : entities[k].createFn = createFn})

\* main.ts:80, 97, 101: what is written between the scan and the first await
planLines(entities) ==
    {Line("Found entities", <<Len(entities), CountOf(entities, "createPolyanet"),
                              CountOf(entities, "createSoloon"),
                              CountOf(entities, "createCometh")>>),
     Line("Processing batches", <<numBatches(entities), batchSize>>)}
        \cup (IF numBatches(entities) = 0 THEN {} ELSE {batchLine(entities, 0)})

\* main.ts:106-118: what the promise of an entity writes when its create
\* call c is over
entityLines(c) ==
    IF c.name \notin CreateOps \/ Pending(c)
    THEN {}
    ELSE IF c.status = "threw"
    THEN {Line("Error creating entity at", <<c.payload.row, c.payload.column>>)}
    ELSE IF c.success
    THEN {Line("Created", <<c.payload.row, c.payload.column>>)}
    ELSE {Line("Failed to create", <<c.payload.row, c.payload.column>>)}

\* main.ts:131-137, 150
verdictLines(c) ==
    IF c.status = "threw"
    THEN {Line("Error during execution:", <<>>)}
    ELSE {Line("Validation result:", <<>>),
          IF c.success /\ c.data.hasData /\ c.data.tag = "solved"
          THEN Line("Phase 2 completed successfully!", <<>>)
          ELSE Line("Phase 2 validation failed:", <<>>)}

Init ==
    /\ calls = <<>>
    /\ pc = "start"
    /\ allEntities = <<>>
    /\ batchIndex = 0
    /\ sleeping = 0
    /\ log = {}
    /\ faults = 0

\* main.ts:36-39: createPhase2Logo calls getGoalMap
Start ==
    /\ pc = "start"
    /\ calls' = <<NewCall("getGoalMap", NoPayload)>>
    /\ pc' = "goal"
    /\ log' = log \cup {Line("Creating Phase 2 Crossmint logo...", <<>>)}
    /\ UNCHANGED <<allEntities, batchIndex, sleeping, faults>>

\* the bodies the server may answer an operation with
Bodies(name) ==
    IF name = "getGoalMap"
    THEN GoalBodies
    ELSE IF name = "validateMap"
    THEN {Body(TRUE, FALSE, <<>>, "solved"), Body(TRUE, FALSE, <<>>, "unsolved")}
    ELSE {Body(TRUE, FALSE, <<>>, "created")}

\* the running attempt of a call of the run ends with a response
ServerAnswers ==
    /\ pc \in {"goal", "batch", "validate"}
    /\ \E i \in 1..Len(calls) :
        /\ calls[i].status = "inflight"
        /\ \E b \in Bodies(calls[i].name) :
              LET c == withRetry(calls[i], Outcome("ok", 200, b))
              IN  /\ calls' = [calls EXCEPT ![i] = c]
                  /\ log' = log \cup entityLines(c)
    /\ UNCHANGED <<pc, allEntities, batchIndex, sleeping, faults>>

\* the failures the server produces in a run of the driver, which looks at
\* no more than the success field: a transient and a permanent one
RunFailures == {Outcome("http", 500, NoData), Outcome("http", 404, NoData)}

\* the running attempt of a call of the run fails
ServerFails ==
    /\ pc \in {"goal", "batch", "validate"}
    /\ faults < MaxFaults
    /\ \E i \in 1..Len(calls) :
        /\ calls[i].status = "inflight"
        /\ \E o \in RunFailures :
              LET c == withRetry(calls[i], o)
              IN  /\ calls' = [calls EXCEPT ![i] = c]
                  /\ log' = log \cup entityLines(c)
    /\ faults' = faults + 1
    /\ UNCHANGED <<pc, allEntities, batchIndex, sleeping>>

\* main.ts:40-43, 47-51: the goal map could not be fetched or is no array
GoalRejected ==
    /\ pc = "goal"
    /\ calls[1].status = "returned"
    /\ \/ ~calls[1].success
       \/ ~calls[1].data.hasData
       \/ ~calls[1].data.isArray
    /\ pc' = "aborted"
    /\ log' = log \cup
          (IF ~calls[1].success \/ ~calls[1].data.hasData
           THEN {Line("Failed to fetch goal map:", <<>>)}
           ELSE {Line("Goal response data:", <<>>), Line("Invalid goal map format", <<>>)})
    /\ UNCHANGED <<calls, allEntities, batchIndex, sleeping, faults>>

\* main.ts:39, 62: getGoalMap threw, or a row of the goal map is null: the
\* exception leaves createPhase2Logo (main.ts:149 logs it)
RunThrows ==
    /\ pc = "goal"
    /\ \/ calls[1].status = "threw"
       \/ /\ calls[1].status = "returned"
          /\ calls[1].success /\ calls[1].data.hasData /\ calls[1].data.isArray
          /\ scanThrows(calls[1].data.rows)
    /\ pc' = "threw"
    /\ log' = log \cup
          (IF calls[1].status = "threw" THEN {} ELSE goalLines(calls[1].data.rows))
              \cup {Line("Error during execution:", <<>>)}
    /\ UNCHANGED <<calls, allEntities, batchIndex, sleeping, faults>>

\* the goal map flattened without the checks of lines 40 and 48
GoalAccepted_unchecked ==
    /\ pc = "goal"
    /\ calls[1].status = "returned"
    /\ ~scanThrows(calls[1].data.rows)
    /\ LET entities == flatten(calls[1].data.rows)
       IN  /\ allEntities' = entities
           /\ log' = log \cup goalLines(calls[1].data.rows) \cup planLines(entities)
           /\ IF numBatches(entities) = 0
              THEN calls' = Append(calls, callValidate) /\ pc' = "validate"
              ELSE calls' = calls \o launch(entities, 0) /\ pc' = "batch"
    /\ UNCHANGED <<batchIndex, sleeping, faults>>

\* main.ts:53-122 (or -131 when there is nothing to create): flatten the goal
\* map, cut the list into batches and start the first batch
GoalAccepted ==
    /\ pc = "goal"
    /\ calls[1].status = "returned"
    /\ calls[1].success /\ calls[1].data.hasData /\ calls[1].data.isArray
    /\ ~scanThrows(calls[1].data.rows)
    /\ LET entities == flatten(calls[1].data.rows)
       IN  /\ allEntities' = entities
           /\ log' = log \cup goalLines(calls[1].data.rows) \cup planLines(entities)
           /\ IF numBatches(entities) = 0
              THEN calls' = Append(calls, callValidate) /\ pc' = "validate"
              ELSE calls' = calls \o launch(entities, 0) /\ pc' = "batch"
    /\ UNCHANGED <<batchIndex, sleeping, faults>>

\* the next batch awaited until every create call of this one succeeded
BatchSettled_untilSuccess ==
    /\ pc = "batch"
    /\ \A c \in batchCalls(batchIndex) : c.status = "returned" /\ c.success
    /\ batchIndex < numBatches(allEntities) - 1
    /\ sleeping' = batchPause
    /\ pc' = "delay"
    /\ log' = log \cup {Line("Waiting before next batch...", <<>>)}
    /\ UNCHANGED <<calls, allEntities, batchIndex, faults>>

\* the pause taken after every batch, the last one included
BatchSettled_afterLast ==
    /\ pc = "batch"
    /\ \A c \in batchCalls(batchIndex) : Settled(c)
    /\ batchIndex < numBatches(allEntities)
    /\ sleeping' = batchPause
    /\ pc' = "delay"
    /\ log' = log \cup {Line("Waiting before next batch...", <<>>)}
    /\ UNCHANGED <<calls, allEntities, batchIndex, faults>>

\* the next batch prepared without awaiting Promise.all of the running one
BatchSettled_noWait ==
    /\ pc = "batch"
    /\ batchIndex < numBatches(allEntities) - 1
    /\ sleeping' = batchPause
    /\ pc' = "delay"
    /\ log' = log \cup {Line("Waiting before next batch...", <<>>)}
    /\ UNCHANGED <<calls, allEntities, batchIndex, faults>>

\* main.ts:122-128: Promise.all of the batch is fulfilled (each promise of
\* the batch catches what its createFn throws, main.ts:115-118) and another
\* batch follows: wait before it
BatchSettled ==
    /\ pc = "batch"
    /\ \A c \in batchCalls(batchIndex) : Settled(c)
    /\ batchIndex < numBatches(allEntities) - 1
    /\ sleeping' = batchPause
    /\ pc' = "delay"
    /\ log' = log \cup {Line("Waiting before next batch...", <<>>)}
    /\ UNCHANGED <<calls, allEntities, batchIndex, faults>>

\* main.ts:99-122: the delay is over, the next batch starts
DelayElapsed ==
    /\ pc = "delay"
    /\ sleeping' = 0
    /\ batchIndex' = batchIndex + 1
    /\ calls' = calls \o launch(allEntities, batchIndex + 1)
    /\ pc' = "batch"
    /\ log' = log \cup {batchLine(allEntities, batchIndex + 1)}
    /\ UNCHANGED <<allEntities, faults>>

\* validateMap called without awaiting Promise.all of the last batch
LastBatchSettled_noWait ==
    /\ pc = "batch"
    /\ batchIndex >= numBatches(allEntities) - 1
    /\ calls' = Append(calls, callValidate)
    /\ pc' = "validate"
    /\ UNCHANGED <<allEntities, batchIndex, sleeping, log, faults>>

\* fail-fast: a failed create of the batch ends the submission loop
LastBatchSettled_failFast ==
    /\ pc = "batch"
    /\ \A c \in batchCalls(batchIndex) : Settled(c)
    /\ \/ batchIndex >= numBatches(allEntities) - 1
       \/ \E c \in batchCalls(batchIndex) : ~c.success
    /\ calls' = Append(calls, callValidate)
    /\ pc' = "validate"
    /\ UNCHANGED <<allEntities, batchIndex, sleeping, log, faults>>

\* main.ts:122-131: the last batch is settled: call validateMap
LastBatchSettled ==
    /\ pc = "batch"
    /\ \A c \in batchCalls(batchIndex) : Settled(c)
    /\ batchIndex >= numBatches(allEntities) - 1
    /\ calls' = Append(calls, callValidate)
    /\ pc' = "validate"
    /\ UNCHANGED <<allEntities, batchIndex, sleeping, log, faults>>

\* main.ts:131-137: validateMap returned, the verdict is logged
Validated ==
    /\ pc = "validate"
    /\ Settled(calls[Len(calls)])
    /\ pc' = IF calls[Len(calls)].status = "threw" THEN "threw" ELSE "done"
    /\ log' = log \cup verdictLines(calls[Len(calls)])
    /\ UNCHANGED <<calls, allEntities, batchIndex, sleeping, faults>>

Next ==
    \/ Start
    \/ ServerAnswers
    \/ ServerFails
    \/ RetryTimer
    \/ GoalRejected
    \/ RunThrows
    \/ GoalAccepted
    \/ BatchSettled
    \/ DelayElapsed
    \/ LastBatchSettled
    \/ Validated

Spec == Init /\ [][Next]_vars

\* a server that goes on failing an operation it has failed before: every
\* further attempt of the call ends in a 500, whatever the budget of faults
ServerKeepsFailing ==
    /\ pc \in {"goal", "batch", "validate"}
    /\ \E i \in 1..Len(calls) :
        /\ calls[i].status = "inflight"
        /\ calls[i].hist # <<>>
        /\ LET c == withRetry(calls[i], Outcome("http", 500, NoData))
           IN  /\ calls' = [calls EXCEPT ![i] = c]
               /\ log' = log \cup entityLines(c)
    /\ UNCHANGED <<pc, allEntities, batchIndex, sleeping, faults>>

\* the goal maps served in the runs checked for termination, which does not
\* depend on the kinds of the entities: the enumerated maps of one kind, and
\* the shortest map of more than one batch
OneKind(rows) ==
    \A r \in 1..Len(rows) :
        rows[r].isArray =>
            \A k \in 1..Len(rows[r].cells) : rows[r].cells[k] \in {SPACE, POLYANET}

GoalServed ==
    (Len(calls) >= 1 /\ calls[1].status = "returned" /\ calls[1].success)
        => \/ ~calls[1].data.isArray
           \/ OneKind(calls[1].data.rows)
           \/ calls[1].data.rows = <<WideRow(batchSize + 1)>>

NextFair ==
    \/ Start
    \/ ServerAnswers /\ GoalServed'
    \/ ServerFails
    \/ ServerKeepsFailing
    \/ RetryTimer
    \/ GoalRejected
    \/ RunThrows
    \/ GoalAccepted
    \/ BatchSettled
    \/ DelayElapsed
    \/ LastBatchSettled
    \/ Validated

\* every HTTP attempt ends (a response, an error or the 10 s timeout of the
\* axios instance), the retry timers and the delay between batches fire, and
\* the event loop resumes createPhase2Logo when what it awaits has settled
FairSpec ==
    /\ Init /\ [][NextFair]_vars
    /\ WF_vars(Start)
    /\ WF_vars(ServerAnswers \/ ServerFails \/ ServerKeepsFailing)
    /\ WF_vars(RetryTimer)
    /\ WF_vars(DelayElapsed)
    /\ WF_vars(GoalRejected \/ RunThrows \/ GoalAccepted)
    /\ WF_vars(BatchSettled \/ LastBatchSettled \/ Validated)

---------------------------------------------------------------------------
(* The flattening alone: main.ts:57-87 applied to a fetched goal map *)

\* labels of every shape the scan tells apart: the four of the goal maps, a
\* cell that is no string, the empty string, unknown and lower-case labels,
\* a suffix that is not at the end, and suffixes that occur twice
AnyLabels ==
    Labels \cup
    {NotAString, Str(<<>>), Str(<<"FOO">>), Str(<<"polyanet">>),
     Str(<<"X", "POLYANET">>), Str(<<"_SOLOON", "X">>),
     Str(<<"RED", "_SOLOON", "_SOLOON">>),
     Str(<<"RED", "_SOLOON", "X", "_SOLOON">>),
     Str(<<"UP", "_COMETH", "X", "_COMETH">>)}

\* the goal maps of array rows over AnyLabels whose rows and cells number n
RECURSIVE AnyGridsOfSize(_)
AnyGridsOfSize(n) ==
    IF n = 0
    THEN {<<>>}
    ELSE UNION {{<<ArrayRow(cells)>> \o rest :
                    cells \in [1..(k - 1) -> AnyLabels], rest \in AnyGridsOfSize(n - k)} :
                   k \in 1..n}

\* main.ts:39-51: getGoalMap has returned a goal that is an array
InitFlatten ==
    /\ \E n \in 0..MaxSize : \E rows \in AnyGridsOfSize(n) :
          calls = <<withRetry(NewCall("getGoalMap", NoPayload),
                              Outcome("ok", 200, Body(TRUE, TRUE, rows, "goal")))>>
    /\ pc = "flatten"
    /\ allEntities = <<>>
    /\ batchIndex = 0
    /\ sleeping = 0
    /\ log = {}
    /\ faults = 0

\* main.ts:57-87
Flatten ==
    /\ pc = "flatten"
    /\ allEntities' = flatten(calls[1].data.rows)
    /\ pc' = "flattened"
    /\ UNCHANGED <<calls, batchIndex, sleeping, log, faults>>

NextFlatten == Flatten

SpecFlatten == InitFlatten /\ [][NextFlatten]_vars

\* timers fire: a scheduled retry is eventually run
FairSpecClient == SpecClient /\ WF_vars(RetryTimer)

---------------------------------------------------------------------------
(* Properties of the client *)

Calls == {calls[i] : i \in 1..Len(calls)}

\* a failure the documentation calls transient: no response, 5xx, or 429
Transient(o) ==
    \/ o.kind = "noResponse"
    \/ o.kind = "http" /\ (o.status >= 500 \/ o.status = 429)

\* a 4xx response other than 429
Permanent(o) ==
    o.kind = "http" /\ o.status >= 400 /\ o.status < 500 /\ o.status # 429

All500(c) ==
    /\ c.hist # <<>>
    /\ \A k \in 1..Len(c.hist) : c.hist[k].kind = "http" /\ c.hist[k].status = 500

\* C3: every operation makes at most 4 attempts; an operation whose attempts
\* all fail with status 500 is not over before its 4th attempt, and after the
\* 4th it has returned success=false.
C3_AtMostFourAttempts ==
    \A c \in Calls :
        /\ c.attempt <= 4
        /\ Len(c.hist) <= 4
        /\ All500(c) /\ Len(c.hist) < 4 => Pending(c)
        /\ All500(c) /\ Len(c.hist) = 4 => c.status = "returned" /\ ~c.success

C3_Witness ==
    \E c \in Calls :
        All500(c) /\ Len(c.hist) = 4 /\ c.status = "returned" /\ ~c.success

\* C4: once an attempt has failed with a 4xx status other than 429, the
\* operation has returned success=false and no further attempt was started,
\* whatever came before that attempt.
C4_PermanentErrorNotRetried ==
    \A c \in Calls :
        Permanent(Last(c)) =>
            c.status = "returned" /\ ~c.success /\ c.attempt = Len(c.hist)

C4_Witness ==
    \E c \in Calls :
        /\ Len(c.hist) = 2
        /\ Transient(c.hist[1])
        /\ c.hist[2].kind = "http" /\ c.hist[2].status = 404
        /\ c.status = "returned" /\ ~c.success

\* C5: when attempt n (n <= 3) of an operation has failed with no response, a
\* status >= 500 or status 429, attempt n+1 of that operation is started.
C5_TransientErrorRetried ==
    \A n \in 1..3 :
        (\E c \in Calls : Len(c.hist) = n /\ Transient(Last(c)) /\ c.attempt = n)
            ~> (\E c \in Calls : c.attempt = n + 1)

C5_Witness ==
    \E c \in Calls :
        /\ Len(c.hist) = 3 /\ c.attempt = 4
        /\ c.hist[1].kind = "noResponse"
        /\ c.hist[2].kind = "http" /\ c.hist[2].status = 503
        /\ c.hist[3].kind = "http" /\ c.hist[3].status = 429

\* C6: no operation ends in a thrown state: an operation that is over has
\* returned an API Result whose success field is a boolean.
C6_NoExceptionEscapes ==
    \A c \in Calls :
        /\ c.status \in {"inflight", "waiting", "returned"}
        /\ ~Pending(c) => c.status = "returned" /\ c.success \in BOOLEAN

C6_Witness ==
    \E c \in Calls :
        /\ c.status = "returned" /\ ~c.success
        /\ c.name = "validateMap"
        /\ Len(c.hist) = 4 /\ Last(c).kind = "other"

\* C7: an operation whose latest attempt succeeded has returned success=true
\* with the body of that response as data; an operation that returned
\* success=false after a transient failure has made all 4 attempts.
C7_TransientFailureOnlyAfterExhaustion ==
    \A c \in Calls :
        /\ Last(c).kind = "ok" =>
              c.status = "returned" /\ c.success /\ c.data = Last(c).body
        /\ c.status = "returned" /\ c.success => Last(c).kind = "ok"
        /\ c.status = "returned" /\ ~c.success /\ Transient(Last(c)) =>
              Len(c.hist) = 4

C7_Witness ==
    \E c \in Calls :
        /\ Len(c.hist) = 4
        /\ \A k \in 1..3 : Transient(c.hist[k])
        /\ c.status = "returned" /\ c.success /\ c.data.tag = "b1"

---------------------------------------------------------------------------
(* Properties of the driver *)

IsCreate(c) == c.name \in CreateOps

\* positions in `calls` of the create calls
Creates == {i \in 1..Len(calls) : IsCreate(calls[i])}

InFlightCreates == {i \in Creates : Pending(calls[i])}

\* C1: the number of create calls that have been started and have not yet
\* returned, backoff waits included, never exceeds 5.
C1_InFlightBounded == Cardinality(InFlightCreates) <= 5

C1_Witness ==
    /\ Cardinality(InFlightCreates) = 5
    /\ \E i \in InFlightCreates : calls[i].status = "waiting"
    /\ Len(allEntities) > 5

\* cell p comes before cell q in row-major order
RowMajorBefore(p, q) == p.row < q.row \/ (p.row = q.row /\ p.column < q.column)

KindRank(name) ==
    IF name = "createPolyanet" THEN 1 ELSE IF name = "createSoloon" THEN 2 ELSE 3

GoalReturned == Len(calls) >= 1 /\ calls[1].status = "returned"

\* C8: when getGoalMap returned success=false, or a payload whose goal is no
\* array, no create call is ever started and the run goes no further than
\* its early return.
C8_BadGoalShortCircuits ==
    GoalReturned /\ (~calls[1].success \/ ~calls[1].data.isArray) =>
        /\ Creates = {}
        /\ pc \in {"goal", "aborted"}

C8_Witness ==
    /\ pc = "aborted"
    /\ calls[1].success /\ calls[1].data.hasData /\ ~calls[1].data.isArray

C8_WitnessFailed ==
    /\ pc = "aborted"
    /\ ~calls[1].success

\* the goal is an array of arrays whose lengths differ
Ragged(rows) ==
    /\ \A r \in 1..Len(rows) : rows[r].isArray
    /\ \E r, q \in 1..Len(rows) : Len(rows[r].cells) # Len(rows[q].cells)

\* C9: when getGoalMap returned a goal whose rows have different lengths, no
\* create call is started for any of its cells.
C9_RaggedGoalAborts ==
    GoalReturned /\ calls[1].success /\ calls[1].data.isArray
        /\ Ragged(calls[1].data.rows) => Creates = {}

\* the create calls started for intent e
CallsOf(e) ==
    {i \in Creates : calls[i].name = e.createFn /\ calls[i].payload = e.entity}

Intended == {allEntities[j] : j \in 1..Len(allEntities)}

\* C10: no entity ever has more than one create call and every create call
\* belongs to an entity of the flattened goal map; once the submission loop
\* is over every entity has exactly one, whatever the results of the others;
\* and a run that has started creating goes on to validation.
C10_OneCreatePerEntity ==
    /\ \A e \in Intended : Cardinality(CallsOf(e)) <= 1
    /\ \A i \in Creates : \E e \in Intended : i \in CallsOf(e)
    /\ GoalReturned /\ calls[1].success /\ calls[1].data.isArray
          /\ ~scanThrows(calls[1].data.rows) /\ pc # "goal" =>
              /\ allEntities = flatten(calls[1].data.rows)
              /\ pc \in {"batch", "delay", "validate", "done"}
    /\ pc \in {"validate", "done"} =>
          \A e \in Intended : Cardinality(CallsOf(e)) = 1

C10_Witness ==
    /\ pc = "done"
    /\ Len(allEntities) > 5
    /\ \E i \in Creates :
          i <= 5 /\ calls[i].status = "returned" /\ ~calls[i].success
    /\ \A e \in Intended : Cardinality(CallsOf(e)) = 1

\* positions in `calls` of the validateMap calls
Validates == {i \in 1..Len(calls) : calls[i].name = "validateMap"}

\* getGoalMap returned a goal that passes Array.isArray (main.ts:48)
PassedArrayCheck ==
    GoalReturned /\ calls[1].success /\ calls[1].data.hasData /\ calls[1].data.isArray

\* createPhase2Logo is over: it returned or threw
RunOver == pc \in {"aborted", "threw", "done"}

\* validateMap is called at most once, and when it is called every entity's
\* create call has been started and has settled
ValidateAfterCreates ==
    /\ Cardinality(Validates) <= 1
    /\ Validates # {} =>
          /\ Cardinality(Creates) = Len(allEntities)
          /\ \A i \in Creates : Settled(calls[i])
          /\ \A i \in Creates, j \in Validates : i < j

\* C11 as stated: validateMap is called at most once and only after every
\* create call has settled, and a run whose goal passed the array check has
\* called it exactly once when it is over.
C11_ValidateOnceAfterArrayCheck ==
    /\ ValidateAfterCreates
    /\ PassedArrayCheck /\ RunOver => Cardinality(Validates) = 1

\* C11 amended: the same for the runs whose goal passed the array check and
\* has no null row; such a run ends only after validateMap, and a run whose
\* goal has a null row ends by the TypeError of the scan without validateMap.
C11_ValidateOnceWhenScanned ==
    /\ ValidateAfterCreates
    /\ PassedArrayCheck /\ ~scanThrows(calls[1].data.rows) =>
          /\ pc \in {"goal", "batch", "delay", "validate", "done"}
          /\ pc = "done" => Cardinality(Validates) = 1
    /\ PassedArrayCheck /\ scanThrows(calls[1].data.rows) =>
          Validates = {} /\ pc \in {"goal", "threw"}

C11_Witness ==
    /\ pc = "done"
    /\ Cardinality(Validates) = 1
    /\ Len(allEntities) > 5
    /\ \E i \in Creates : ~calls[i].success

\* the entity list is empty and validateMap has been called all the same
C11_WitnessEmpty ==
    /\ pc = "done"
    /\ Cardinality(Validates) = 1
    /\ allEntities = <<>>

Succeeded == {i \in Creates : calls[i].status = "returned" /\ calls[i].success}
Failed == {i \in Creates : Settled(calls[i]) /\ ~(calls[i].status = "returned" /\ calls[i].success)}

\* C12: once all submissions have settled and validateMap has been called,
\* the console holds a tally line with the number of successful and of
\* failed creates, which sum to the number of flattened entities.
C12_TallyReported ==
    pc \in {"validate", "done"} =>
        /\ Cardinality(Succeeded) + Cardinality(Failed) = Len(allEntities)
        /\ Line("successful, failed", <<Cardinality(Succeeded), Cardinality(Failed)>>) \in log

---------------------------------------------------------------------------
(* More properties of the client *)

\* C13: the delays an operation has scheduled are 1000, 2000 and 4000 ms in
\* this order: one per retry, strictly increasing, none above 8000 ms.
C13_BackoffDelays ==
    \A c \in Calls :
        /\ Len(c.delays) <= 3
        /\ \A n \in 1..Len(c.delays) :
              /\ c.delays[n] = <<1000, 2000, 4000>>[n]
              /\ c.delays[n] <= 8000
              /\ n > 1 => c.delays[n - 1] < c.delays[n]
        /\ c.status = "waiting" =>
              Len(c.delays) = c.attempt /\ c.timeout = c.delays[c.attempt]

C13_Witness ==
    \E c \in Calls :
        c.delays = <<1000, 2000, 4000>> /\ c.status = "waiting" /\ c.timeout = 4000

---------------------------------------------------------------------------
(* Properties of the flattening *)

\* the cells of the fetched goal map, as <<row, column>> counted from 1
Cells ==
    {rc \in (1..Len(calls[1].data.rows)) \X (1..MaxSize + 1) :
        rc[2] <= Len(calls[1].data.rows[rc[1]].cells)}

CellAt(rc) == calls[1].data.rows[rc[1]].cells[rc[2]]

EndsIn(cell, suffix) ==
    cell.isString /\ cell.text # <<>> /\ cell.text[Len(cell.text)] = suffix

Recognised(cell) ==
    cell = POLYANET \/ EndsIn(cell, "_SOLOON") \/ EndsIn(cell, "_COMETH")

\* positions in allEntities of the entities at cell rc
EntitiesAt(rc) ==
    {k \in 1..Len(allEntities) :
        /\ allEntities[k].entity.row = rc[1] - 1
        /\ allEntities[k].entity.column = rc[2] - 1}

\* C14: after the flattening a SPACE cell has no entity, a POLYANET cell has
\* exactly one, a Polyanet at its row and column, a cell that is no string or
\* whose label is not recognised has none, and there are as many entities as
\* cells that are POLYANET or end in _SOLOON or _COMETH.
C14_CellsClassified ==
    pc = "flattened" =>
        /\ \A rc \in Cells :
              /\ CellAt(rc) = SPACE => EntitiesAt(rc) = {}
              /\ CellAt(rc) = POLYANET =>
                    /\ Cardinality(EntitiesAt(rc)) = 1
                    /\ \A k \in EntitiesAt(rc) : allEntities[k].createFn = "createPolyanet"
              /\ ~Recognised(CellAt(rc)) => EntitiesAt(rc) = {}
        /\ Len(allEntities) = Cardinality({rc \in Cells : Recognised(CellAt(rc))})

C14_Witness ==
    /\ pc = "flattened"
    /\ Len(allEntities) = 1
    /\ \E rc, sp, un \in Cells :
          /\ CellAt(rc) = POLYANET /\ EntitiesAt(rc) # {}
          /\ CellAt(sp) = SPACE
          /\ CellAt(un) = Str(<<"_SOLOON", "X">>)

\* the part of a label that precedes its final suffix, lower-cased
BeforeSuffix(cell) == toLowerCase(SubSeq(cell.text, 1, Len(cell.text) - 1))

\* C15: the Soloon of a cell that ends in _SOLOON has as color, and the
\* Cometh of a cell that ends in _COMETH as direction, the lower-cased part
\* of the label that precedes that final suffix.
C15_AttributeIsLoweredPrefix ==
    pc = "flattened" =>
        \A rc \in Cells :
            /\ EndsIn(CellAt(rc), "_SOLOON") =>
                  \E k \in EntitiesAt(rc) :
                      /\ allEntities[k].createFn = "createSoloon"
                      /\ allEntities[k].entity.attr = BeforeSuffix(CellAt(rc))
            /\ EndsIn(CellAt(rc), "_COMETH") =>
                  \E k \in EntitiesAt(rc) :
                      /\ allEntities[k].createFn = "createCometh"
                      /\ allEntities[k].entity.attr = BeforeSuffix(CellAt(rc))

---------------------------------------------------------------------------
(* Properties of the shared client *)

\* the operation c0 run alone through the attempt outcomes h
RECURSIVE Alone(_, _)
Alone(c0, h) ==
    IF h = <<>>
    THEN c0
    ELSE LET before == Alone(c0, SubSeq(h, 1, Len(h) - 1))
         IN  withRetry(IF before.status = "waiting" THEN nextAttempt(before) ELSE before,
                       h[Len(h)])

\* C16: whatever the other operations on the instance did, an operation is
\* where it would be had it run alone through its own attempt outcomes: it
\* has failed after transient failures only when its own 4 attempts failed,
\* it has succeeded exactly when its own latest attempt did, with that
\* response's body, and it has used as many retries as its own failures ask.
C16_OperationsIndependent ==
    \A c \in Calls :
        LET alone == Alone(NewCall(c.name, c.payload), c.hist)
        IN  /\ \/ c = alone
               \/ alone.status = "waiting" /\ c = nextAttempt(alone)
            /\ c.status = "returned" /\ ~c.success /\ Transient(Last(c)) =>
                  Len(c.hist) = 4
            /\ c.status = "returned" /\ c.success <=> Last(c).kind = "ok"
            /\ Len(c.delays) = Cardinality({k \in 1..Len(c.hist) : k <= 3 /\ Transient(c.hist[k])})

\* two operations in flight at once; one used up its retries and failed, the
\* other then succeeded on its own 4th attempt
C16_Witness ==
    /\ Len(calls) = 2
    /\ calls[1].status = "returned" /\ ~calls[1].success /\ Len(calls[1].hist) = 4
    /\ calls[2].status = "returned" /\ calls[2].success /\ Len(calls[2].hist) = 4
    /\ calls[2].data.tag = "b1"

---------------------------------------------------------------------------
(* More properties of the driver *)

\* the batch (0-based) of the create call at position i of `calls`
BatchOf(i) == (i - 2) \div 5

\* the barrier: a create call of a later batch exists only when every create
\* call of the batches before it has settled; a delay is pending only
\* between two batches, and it is one of 2000 ms
BarrierHolds ==
    /\ \A i, j \in Creates : BatchOf(i) < BatchOf(j) => Settled(calls[i])
    /\ sleeping # 0 <=> pc = "delay"
    /\ pc = "delay" =>
          /\ sleeping = 2000
          /\ Creates # {}
          /\ \A i \in Creates : Settled(calls[i])
          /\ Cardinality(Creates) < Len(allEntities)
          /\ Validates = {}

\* a step that starts create calls after the first batch ends a delay, and a
\* step that calls validateMap follows the goal map or a batch directly
BarrierStep ==
    /\ Creates # {} /\ Cardinality(Creates') > Cardinality(Creates) =>
          pc = "delay" /\ sleeping = 2000 /\ sleeping' = 0
    /\ Validates = {} /\ Validates' # {} =>
          pc \in {"goal", "batch"} /\ sleeping = 0 /\ sleeping' = 0

\* C17: no create call of a batch is started before every create call of
\* the batch before it has settled and the 2000 ms delay that follows has
\* elapsed; there is a delay only between two batches, and validateMap
\* follows the last batch without one.
C17_BatchBarrier == []BarrierHolds /\ [][BarrierStep]_vars

C17_Witness ==
    /\ pc = "batch" /\ batchIndex = 1
    /\ Cardinality(Creates) = 7
    /\ \E i \in Creates : BatchOf(i) = 0 /\ Len(calls[i].hist) = 2 /\ ~calls[i].success
    /\ \E j \in Creates : BatchOf(j) = 1 /\ Pending(calls[j])

\* the run is over in one of the two ways it can end: before any create call
\* (the goal map was rejected, or scanning it threw), or after validateMap
\* has returned
Finished ==
    \/ pc \in {"aborted", "threw"} /\ Creates = {} /\ Validates = {}
    \/ /\ pc = "done"
       /\ Validates # {}
       /\ \A i \in Validates : calls[i].status = "returned"

\* C18: when every attempt ends and the timers fire, createPhase2Logo
\* finishes, either right after the goal-map step or with validateMap
\* returned, and from some point on no create call is in flight.
C18_RunTerminates == <>[](Finished /\ InFlightCreates = {})

\* a finished run in which a create call used all four attempts and failed,
\* and another batch followed it
C18_Witness ==
    /\ pc = "done"
    /\ Cardinality(Creates) > 5
    /\ \E i \in Creates : Len(calls[i].hist) = 4 /\ ~calls[i].success

---------------------------------------------------------------------------
(* Errors that are not AxiosErrors *)

NotAxios(o) == o.kind \in {"other", "typeError"}

\* C19: shouldRetry answers true for every error that is not an AxiosError,
\* an operation whose attempt failed with such an error while fewer than 3
\* retries were made goes on to another attempt, and an operation that
\* returned a failure after fewer than 4 attempts failed last with an HTTP
\* status below 500 other than 429.
C19_OnlyPermanentStopsEarly ==
    \A c \in Calls :
        /\ NotAxios(Last(c)) => shouldRetry(Last(c))
        /\ NotAxios(Last(c)) /\ Len(c.hist) <= 3 => Pending(c)
        /\ c.status = "returned" /\ ~c.success /\ Len(c.hist) < 4 =>
              /\ Last(c).kind = "http"
              /\ Last(c).status < 500 /\ Last(c).status # 429

====
